---- MODULE Spec2Model ----
(***************************************************************************)
(* Report lifecycle of the inquiry-response report system: the report      *)
(* endpoints of the HTTP layer (routes) over the report table (storage),   *)
(* with the zod schemas of shared/schema.ts.                               *)
(*                                                                         *)
(* Every handler is an async function.  Between two awaited storage calls  *)
(* other requests may run, so a handler is one action per awaited storage  *)
(* call that matters: the action holds the synchronous code that follows   *)
(* the previous await together with the next storage call.  The users      *)
(* table is never written by the report endpoints, so storage.getUser is   *)
(* folded into the step that uses its result.                              *)
(*                                                                         *)
(* Text is a sequence of characters over {" ", "a"}; a nullable column     *)
(* holds Null or Some(v).  The updatedAt column is not modelled: no        *)
(* handler reads it.  `files` is what the server has on disk: the PDF      *)
(* storage directory and the temporary files of the print endpoint.       *)
(***************************************************************************)
EXTENDS Integers, Sequences, FiniteSets, TLC

VARIABLES reports, reqs, now, files

vars == <<reports, reqs, now, files>>

----------------------------------------------------------------------------
(* Bounds of the model *)

MaxReports == 1
MaxInFlight == 2
MaxTime == 1

Slots == 1..MaxInFlight
ReportIds == 1..MaxReports

----------------------------------------------------------------------------
(* Values *)

Null == <<>>
Some(v) == <<v>>

E == <<>>
B == <<" ">>
T == <<"a">>

RECURSIVE TrimStart(_)
TrimStart(s) ==
  IF s = <<>> THEN s
  ELSE IF Head(s) = " " THEN TrimStart(Tail(s)) ELSE s

RECURSIVE TrimEnd(_)
TrimEnd(s) ==
  IF s = <<>> THEN s
  ELSE IF s[Len(s)] = " " THEN TrimEnd(SubSeq(s, 1, Len(s) - 1)) ELSE s

trim(s) == TrimEnd(TrimStart(s))

Merge(a, b) ==
  [k \in DOMAIN a \cup DOMAIN b |-> IF k \in DOMAIN b THEN b[k] ELSE a[k]]

Pick(o, keys) == [k \in DOMAIN o \cap keys |-> o[k]]

----------------------------------------------------------------------------
(* Users and roles *)

(* The seeded users who send requests, and the roles column of each seeded *)
(* user.                                                                   *)
Users == {"handler1", "approver1", "approver2"}

roles(u) ==
  CASE u = "handler1" -> {"handler"}
    [] u = "handler2" -> {"handler"}
    [] u = "approver1" -> {"approver"}
    [] u = "approver2" -> {"handler", "approver"}
    [] u = "admin1" -> {"admin"}

hasRole(u, requiredRole) == requiredRole \in roles(u)

(* The users who send POST /api/reports *)
Creators == {"handler1"}

----------------------------------------------------------------------------
(* shared/schema.ts *)

RequiredText ==
  {"userNumber", "bankCode", "branchCode", "companyName",
   "contactPersonName", "inquiryContent", "responseContent"}

ReportColumns ==
  RequiredText \cup
  {"reportNumber", "handlerId", "approverId", "escalationRequired",
   "escalationReason", "status", "rejectionReason", "approvedAt", "createdAt"}

NotNullNoDefault == RequiredText \cup {"reportNumber", "handlerId"}

NullableColumns ==
  {"approverId", "escalationReason", "rejectionReason", "approvedAt", "createdAt"}

ColumnDefault(c) ==
  CASE c = "escalationRequired" -> FALSE
    [] c = "status" -> "draft"
    [] OTHER -> Null

InsertReportKeysUnomitted ==
  RequiredText \cup
  {"handlerId", "escalationRequired", "escalationReason", "rejectionReason",
   "reportNumber", "createdAt"}

InsertReportKeysWithWorkflow ==
  RequiredText \cup
  {"handlerId", "escalationRequired", "escalationReason", "rejectionReason",
   "status", "approverId", "approvedAt"}

InsertReportKeys ==
  RequiredText \cup
  {"handlerId", "escalationRequired", "escalationReason", "rejectionReason"}

(* Issue paths of insertReportSchema.parse(o).  ROOT is the empty path. *)
ROOT == "(root)"

MissingKeys(o) == (RequiredText \cup {"handlerId"}) \ DOMAIN o

TooSmall(o) == {f \in RequiredText \cap DOMAIN o : Len(o[f]) < 1}

insertReportSchemaIssues(o) == MissingKeys(o) \cup TooSmall(o)

insertReportSchemaPartialIssues(o) == TooSmall(o)

AllRequiredNonEmptyNoTrim(data) ==
  \A f \in RequiredText : Len(data[f]) > 0

AllRequiredNonEmpty(data) ==
  \A f \in RequiredText : Len(trim(data[f])) > 0

submitReportForApprovalSchemaIssues(o) ==
  insertReportSchemaIssues(o) \cup
  (IF MissingKeys(o) = {} /\ ~AllRequiredNonEmpty(o) THEN {ROOT} ELSE {})

StatusEnum == {"pending_approval", "approved", "rejected"}

updateReportStatusSchemaIssues(o) ==
  IF "status" \in DOMAIN o /\ o.status \in StatusEnum THEN {} ELSE {"status"}

UpdateReportStatusKeys == {"status", "rejectionReason", "approverId", "approvedAt"}

----------------------------------------------------------------------------
(* Time: Date.now() is the clock `now`, counted in ticks.  A calendar      *)
(* month is DaysPerMonth days of TicksPerDay ticks; the first tick of a    *)
(* day is its midnight.                                                    *)

TicksPerDay == 2
DaysPerMonth == 2

TicksPerMonth == DaysPerMonth * TicksPerDay

monthOf(t) == t \div TicksPerMonth

monthStartTimestamp(t) == monthOf(t) * TicksPerMonth

(* new Date(year, month + 1, 0): midnight of the month's last day *)
monthEndTimestamp(t) == monthStartTimestamp(t) + (DaysPerMonth - 1) * TicksPerDay

----------------------------------------------------------------------------
(* server/storage.ts: DatabaseStorage over the reports table *)

Row(values) ==
  [c \in ReportColumns |->
     IF c \in DOMAIN values THEN values[c] ELSE ColumnDefault(c)]

(* The row a nullable column of which holds v *)
ToColumns(data) ==
  [k \in DOMAIN data |-> IF k \in NullableColumns THEN Some(data[k]) ELSE data[k]]

getReport(id) ==
  IF id \in 1..Len(reports) THEN Some(reports[id]) ELSE Null

(* existingReport as far as a handler reads it: the columns `read` *)
Existing(id, read) ==
  IF getReport(id) = Null THEN Null ELSE Some(Pick(getReport(id)[1], read))

monthlyCount(t) ==
  Cardinality({i \in 1..Len(reports) :
                 /\ reports[i].createdAt # Null
                 /\ reports[i].createdAt[1] >= monthStartTimestamp(t)
                 /\ reports[i].createdAt[1] <= monthEndTimestamp(t)})

reportNumber(t, cnt) == <<monthOf(t), cnt + 1>>

InsertFailsNotNullOnly(values) ==
  NotNullNoDefault \ DOMAIN values # {}

(* The INSERT of createReport throws: a NOT NULL column without a value,   *)
(* or a report_number that is not UNIQUE.                                  *)
InsertFails(values) ==
  \/ NotNullNoDefault \ DOMAIN values # {}
  \/ \E i \in 1..Len(reports) : reports[i].reportNumber = values.reportNumber

createReportValues(report, t, cnt) ==
  Merge(report, [reportNumber |-> reportNumber(t, cnt), createdAt |-> Some(now)])

(* UPDATE reports SET ... WHERE id = id: no row, no change *)
SetColumns(id, set) ==
  IF id \in 1..Len(reports)
  THEN [reports EXCEPT ![id] = Merge(@, set)]
  ELSE reports

updateReport(id, report) == SetColumns(id, ToColumns(report))

updateData(statusUpdate) ==
  Merge(Merge([status |-> statusUpdate.status],
              IF statusUpdate.status = "approved"
              THEN [approvedAt |-> Some(now)] ELSE <<>>),
        IF "rejectionReason" \in DOMAIN statusUpdate /\ statusUpdate.rejectionReason # E
        THEN [rejectionReason |-> Some(statusUpdate.rejectionReason)] ELSE <<>>)

updateReportStatus(id, statusUpdate) == SetColumns(id, updateData(statusUpdate))

(* The users table as seeded; the report endpoints never write it *)
SeededUsers == {"handler1", "handler2", "approver1", "approver2", "admin1"}

(* innerJoin(users, eq(reports.handlerId, users.id)) keeps row i *)
JoinsHandler(i) == reports[i].handlerId \in SeededUsers

(* innerJoin(users as approver, reports.approverId = approver.id) keeps    *)
(* row i: a NULL approverId joins no user.                                 *)
JoinsApprover(i) ==
  reports[i].approverId # Null /\ reports[i].approverId[1] \in SeededUsers

(* column LIKE '%query%' *)
like(column, query) ==
  \E i \in 0..(Len(column) - Len(query)) :
    SubSeq(column, i + 1, i + Len(query)) = query

(* report_number LIKE '%query%': the text RPT-yyyy-mm-nnn holds no         *)
(* character of the text alphabet, so only the empty query is found in it. *)
likeReportNumber(number, query) == query = E

(* Query results are the ids of the rows returned *)
getReportsByUserUnscoped(userId, status) == 1..Len(reports)

getReportsByUser(userId, status) == {}

getReportsForApprovalAssigned(approverId) ==
  {i \in 1..Len(reports) :
     /\ JoinsHandler(i)
     /\ JoinsApprover(i)
     /\ reports[i].approverId = Some(approverId)
     /\ reports[i].status = "pending_approval"}

getReportsForApproval(approverId) ==
  {i \in 1..Len(reports) :
     JoinsHandler(i) /\ reports[i].status = "pending_approval"}

searchReports(query) ==
  {i \in 1..Len(reports) :
     /\ JoinsHandler(i)
     /\ JoinsApprover(i)
     /\ \/ likeReportNumber(reports[i].reportNumber, query)
        \/ like(reports[i].companyName, query)
        \/ like(reports[i].contactPersonName, query)
        \/ like(reports[i].inquiryContent, query)}

(* getReportStatistics: the bounds of today and of the month, and the four  *)
(* counts.  A NULL created_at satisfies no comparison.                     *)
startOfDay == (now \div TicksPerDay) * TicksPerDay

endOfDay == startOfDay + TicksPerDay

startOfMonth == monthStartTimestamp(now)

getReportStatisticsAnyStatus ==
  LET all == 1..Len(reports)
      today == {i \in all : /\ reports[i].createdAt # Null
                            /\ reports[i].createdAt[1] >= startOfDay
                            /\ reports[i].createdAt[1] < endOfDay}
      pending == {i \in all : reports[i].status = "pending_approval"}
      monthly == {i \in all : /\ TRUE
                              /\ reports[i].createdAt # Null
                              /\ reports[i].createdAt[1] >= startOfMonth}
      escalation == {i \in all : reports[i].escalationRequired = TRUE}
  IN [todayInquiries |-> Cardinality(today),
      pendingApprovals |-> Cardinality(pending),
      monthlyCompleted |-> Cardinality(monthly),
      escalations |-> Cardinality(escalation)]

getReportStatistics ==
  LET all == 1..Len(reports)
      today == {i \in all : /\ reports[i].createdAt # Null
                            /\ reports[i].createdAt[1] >= startOfDay
                            /\ reports[i].createdAt[1] < endOfDay}
      pending == {i \in all : reports[i].status = "pending_approval"}
      monthly == {i \in all : /\ reports[i].status = "approved"
                              /\ reports[i].createdAt # Null
                              /\ reports[i].createdAt[1] >= startOfMonth}
      escalation == {i \in all : reports[i].escalationRequired = TRUE}
  IN [todayInquiries |-> Cardinality(today),
      pendingApprovals |-> Cardinality(pending),
      monthlyCompleted |-> Cardinality(monthly),
      escalations |-> Cardinality(escalation)]

----------------------------------------------------------------------------
(* Requests.  A slot holds one request: its input, what it has read so far *)
(* and, once it is done, its response.                                     *)

NoResponse == [code |-> 0, message |-> "", errors |-> {}]

Response(code, message) == [code |-> code, message |-> message, errors |-> {}]

Idle ==
  [pc |-> "idle", kind |-> "none", actor |-> "none", rid |-> 0,
   body |-> <<>>, snap |-> Null, resp |-> NoResponse]

Free(q) == reqs[q].pc \in {"idle", "done"}

(* The slot a new request takes: slots are interchangeable, so the first   *)
(* free one.                                                               *)
FirstFree(q) == Free(q) /\ \A p \in Slots : Free(p) => q <= p

Begin(q, kind, actor, rid, body, snap) ==
  reqs' = [reqs EXCEPT ![q] =
             [pc |-> "await", kind |-> kind, actor |-> actor, rid |-> rid,
              body |-> body, snap |-> snap, resp |-> NoResponse]]

(* A finished request keeps the report it was for and what it read of it,  *)
(* next to its response; who sent it and with which body is not kept.      *)
Done(kind, rid, snap, resp) ==
  [pc |-> "done", kind |-> kind, actor |-> "none", rid |-> rid,
   body |-> <<>>, snap |-> snap, resp |-> resp]

Finished(q, kind, actor, rid, body, snap, resp) ==
  reqs' = [reqs EXCEPT ![q] = Done(kind, rid, snap, resp)]

(* A request refused before it read anything keeps who sent it and with    *)
(* which body next to its response.                                        *)
Refused(q, kind, actor, body, resp) ==
  reqs' = [reqs EXCEPT ![q] =
             [pc |-> "done", kind |-> kind, actor |-> actor, rid |-> 0,
              body |-> body, snap |-> Null, resp |-> resp]]

Respond(q, resp) ==
  reqs' = [reqs EXCEPT ![q] = Done(reqs[q].kind, reqs[q].rid, reqs[q].snap, resp)]

Awaiting(q, kind) == reqs[q].pc = "await" /\ reqs[q].kind = kind

----------------------------------------------------------------------------
(* Request bodies the clients send *)

Complete == [f \in RequiredText |-> T]

SubmitFlag == "_submitForApproval" :> TRUE

CreateBodies ==
  {Complete,
   [Complete EXCEPT !["companyName"] = B],
   [Complete EXCEPT !["companyName"] = E],
   Pick(Complete, RequiredText \ {"companyName"}),
   Merge(Complete, [escalationRequired |-> TRUE, escalationReason |-> E]),
   Merge(Complete, Merge(SubmitFlag, [handlerId |-> "handler1"]))}

UpdateBodies ==
  {[companyName |-> T], [companyName |-> B], [companyName |-> E]}

StatusBodies ==
  {[status |-> "approved"],
   [status |-> "rejected"],
   [status |-> "rejected", rejectionReason |-> T],
   [status |-> "draft"]}

----------------------------------------------------------------------------
(* server/routes.ts *)

Init ==
  /\ reports = <<>>
  /\ reqs = [q \in Slots |-> Idle]
  /\ now = 0
  /\ files = {}

(* Date.now() advances *)
Tick ==
  /\ now' = now + 1
  /\ UNCHANGED <<reports, reqs, files>>

Creating == {q \in Slots : Awaiting(q, "create")}

(* POST /api/reports, to the count query of storage.createReport.  The      *)
(* 400 message is the Japanese for "input is incomplete".                  *)
CreateBegin(q, u, body) ==
  /\ FirstFree(q)
  /\ LET issues == IF "_submitForApproval" \in DOMAIN body
                   THEN submitReportForApprovalSchemaIssues(body)
                   ELSE insertReportSchemaPartialIssues(body)
     IN IF issues # {}
        THEN Refused(q, "create", u, body,
                     [code |-> 400, message |-> "input is incomplete",
                      errors |-> issues])
        ELSE Begin(q, "create", u, 0, body,
                   Some([t |-> now, cnt |-> monthlyCount(now)]))
  /\ UNCHANGED <<reports, now, files>>

(* POST /api/reports, the INSERT of storage.createReport and the response *)
CreateFinish(q) ==
  /\ Awaiting(q, "create")
  /\ LET r == reqs[q]
         validatedData == ToColumns(Pick(r.body, InsertReportKeys))
         report == Merge(validatedData,
                     [handlerId |-> r.actor, approverId |-> Null,
                      status |-> IF "_submitForApproval" \in DOMAIN r.body
                                 THEN "pending_approval" ELSE "draft"])
         values == createReportValues(report, r.snap[1].t, r.snap[1].cnt)
     IN IF InsertFails(values)
        THEN /\ Respond(q, Response(500, "Failed to create report"))
             /\ UNCHANGED reports
        ELSE /\ reports' = Append(reports, Row(values))
             /\ Respond(q, Response(201, ""))
  /\ UNCHANGED <<now, files>>

(* PATCH /api/reports/:id, to storage.getReport *)
UpdateBegin(q, u, id, body) ==
  /\ FirstFree(q)
  /\ IF getReport(id) = Null
     THEN Finished(q, "update", u, id, body, Null, Response(404, "Report not found"))
     ELSE Begin(q, "update", u, id, body, Existing(id, {"handlerId", "approverId"}))
  /\ UNCHANGED <<reports, now, files>>

MayUpdate(existingReport, userId) ==
  ~(existingReport.handlerId # userId /\ existingReport.approverId # Some(userId))

(* PATCH /api/reports/:id, from the ownership check to the response *)
UpdateFinish(q) ==
  /\ Awaiting(q, "update")
  /\ LET r == reqs[q]
         existingReport == r.snap[1]
     IN IF ~MayUpdate(existingReport, r.actor)
        THEN /\ Respond(q, Response(403, "Not authorized to update this report"))
             /\ UNCHANGED reports
        ELSE IF insertReportSchemaPartialIssues(r.body) # {}
        THEN /\ Respond(q, [code |-> 400, message |-> "Invalid data",
                            errors |-> insertReportSchemaPartialIssues(r.body)])
             /\ UNCHANGED reports
        ELSE /\ reports' = updateReport(r.rid, Pick(r.body, InsertReportKeys))
             /\ Respond(q, Response(200, ""))
  /\ UNCHANGED <<now, files>>

IsPendingApprovalUnchecked(existingReport) == TRUE

IsPendingApproval(existingReport) == existingReport.status = "pending_approval"

(* PATCH /api/reports/:id/status, to storage.getReport *)
StatusBegin(q, u, id, body) ==
  /\ FirstFree(q)
  /\ IF getReport(id) = Null
     THEN Finished(q, "status", u, id, body, Null, Response(404, "Report not found"))
     ELSE Begin(q, "status", u, id, body, Existing(id, {"status"}))
  /\ UNCHANGED <<reports, now, files>>

(* PATCH /api/reports/:id/status, from the role check to the response *)
StatusFinish(q) ==
  /\ Awaiting(q, "status")
  /\ LET r == reqs[q]
         existingReport == r.snap[1]
         validatedData == Pick(r.body, UpdateReportStatusKeys)
     IN IF ~hasRole(r.actor, "approver")
        THEN /\ Respond(q, Response(403, "Not authorized - approver role required"))
             /\ UNCHANGED reports
        ELSE IF ~IsPendingApproval(existingReport)
        THEN /\ Respond(q, Response(400, "Report is not in pending approval status"))
             /\ UNCHANGED reports
        ELSE IF updateReportStatusSchemaIssues(r.body) # {}
        THEN /\ Respond(q, [code |-> 400, message |-> "Invalid data",
                            errors |-> updateReportStatusSchemaIssues(r.body)])
             /\ UNCHANGED reports
        ELSE IF validatedData.status = "approved"
        THEN /\ reports' = updateReportStatus(r.rid,
                             Merge(validatedData,
                                   [approverId |-> r.actor, approvedAt |-> now]))
             /\ Respond(q, Response(200, ""))
        ELSE /\ reports' = updateReportStatus(r.rid,
                             Merge(validatedData, [approverId |-> r.actor]))
             /\ Respond(q, Response(200, ""))
  /\ UNCHANGED <<now, files>>

(* PATCH /api/reports/:id/submit, to storage.getReport *)
SubmitBegin(q, u, id) ==
  /\ FirstFree(q)
  /\ IF getReport(id) = Null
     THEN Finished(q, "submit", u, id, <<>>, Null, Response(404, "Report not found"))
     ELSE Begin(q, "submit", u, id, <<>>, Existing(id, RequiredText \cup {"handlerId"}))
  /\ UNCHANGED <<reports, now, files>>

(* PATCH /api/reports/:id/submit, from the ownership check to the          *)
(* response.  The 400 message is the Japanese for "fill in every required  *)
(* field before submitting".                                               *)
SubmitFinish(q) ==
  /\ Awaiting(q, "submit")
  /\ LET r == reqs[q]
         existingReport == r.snap[1]
         issues == submitReportForApprovalSchemaIssues(existingReport)
     IN IF existingReport.handlerId # r.actor
        THEN /\ Respond(q, Response(403, "Not authorized to submit this report"))
             /\ UNCHANGED reports
        ELSE IF issues # {}
        THEN /\ Respond(q, [code |-> 400, message |-> "fill in every required field",
                            errors |-> issues])
             /\ UNCHANGED reports
        ELSE /\ reports' = updateReportStatus(r.rid, [status |-> "pending_approval"])
             /\ Respond(q, Response(200, ""))
  /\ UNCHANGED <<now, files>>

(* PATCH /api/test/approve/:id: no authentication, one storage call *)
TestApprove(q, id) ==
  /\ FirstFree(q)
  /\ reports' = updateReportStatus(id, [status |-> "approved"])
  /\ Finished(q, "test_approve", "anonymous", id, <<>>, Null, Response(200, ""))
  /\ UNCHANGED <<now, files>>

(* The table and the clock stay within the bounds: no request is sent that  *)
(* could add a report beyond `most`, and the clock stops at `last`.        *)
RoomFor(most) == Len(reports) + Cardinality(Creating) < most

Before(last) == now < last

Next ==
  \/ Before(MaxTime) /\ Tick
  \/ \E q \in Slots, u \in Creators, body \in CreateBodies :
       RoomFor(MaxReports) /\ CreateBegin(q, u, body)
  \/ \E q \in Slots : CreateFinish(q)
  \/ \E q \in Slots, u \in Users, id \in ReportIds, body \in UpdateBodies :
       UpdateBegin(q, u, id, body)
  \/ \E q \in Slots : UpdateFinish(q)
  \/ \E q \in Slots, u \in Users, id \in ReportIds, body \in StatusBodies :
       StatusBegin(q, u, id, body)
  \/ \E q \in Slots : StatusFinish(q)
  \/ \E q \in Slots, u \in Users, id \in ReportIds : SubmitBegin(q, u, id)
  \/ \E q \in Slots : SubmitFinish(q)
  \/ \E q \in Slots, id \in ReportIds : TestApprove(q, id)

Spec == Init /\ [][Next]_vars

----------------------------------------------------------------------------
(* Report numbering: POST /api/reports alone, by users of every role, with *)
(* several reports and a clock that runs into the next month.              *)

MaxCreated == 3
LastTick == 5

AnyCreators == {"handler1", "approver1"}

PlainBodies == {Complete}

NextCreate ==
  \/ Before(LastTick) /\ Tick
  \/ \E q \in Slots, u \in AnyCreators, body \in PlainBodies :
       RoomFor(MaxCreated) /\ CreateBegin(q, u, body)
  \/ \E q \in Slots : CreateFinish(q)

SpecCreate == Init /\ [][NextCreate]_vars

(* The same, with the requests sent one after another: a request is sent   *)
(* only when no createReport call is running.                              *)
NextCreateSerial ==
  \/ Before(LastTick) /\ Tick
  \/ \E q \in Slots, u \in AnyCreators, body \in PlainBodies :
       Creating = {} /\ RoomFor(MaxCreated) /\ CreateBegin(q, u, body)
  \/ \E q \in Slots : CreateFinish(q)

SpecCreateSerial == Init /\ [][NextCreateSerial]_vars

----------------------------------------------------------------------------
(* Listing: GET /api/reports by users of every role over reports of        *)
(* several handlers in every status.                                       *)

MaxListed == 2

ListQueries == {<<>>, [status |-> "pending_approval"], [search |-> T]}

(* GET /api/reports.  storage.getUser finds every seeded user; the one     *)
(* read of the reports table is the query of the branch taken.  The slot   *)
(* keeps who asked and with which query next to the rows returned.         *)
ListReports(q, u, query) ==
  /\ FirstFree(q)
  /\ LET isApprover == hasRole(u, "approver")
         rows == IF "search" \in DOMAIN query /\ query.search # E
                 THEN searchReports(query.search)
                 ELSE IF isApprover
                 THEN getReportsForApproval(Null)
                 ELSE getReportsByUser(u, IF "status" \in DOMAIN query
                                          THEN Some(query.status) ELSE Null)
     IN reqs' = [reqs EXCEPT ![q] =
                   [pc |-> "done", kind |-> "list", actor |-> u, rid |-> 0,
                    body |-> query, snap |-> Null,
                    resp |-> [code |-> 200, message |-> "", errors |-> {},
                              rows |-> rows]]]
  /\ UNCHANGED <<reports, now, files>>

ListCreators == {"handler1", "handler2"}

(* A create with immediate submission has to carry a handlerId: the       *)
(* schema requires the key, the route then overwrites the value.  One of  *)
(* the bodies has a required field of whitespace only.                    *)
SubmitAs == Merge(SubmitFlag, [handlerId |-> "handler1"])

ListCreateBodies ==
  {Complete,
   Merge(Complete, SubmitAs),
   Merge([Complete EXCEPT !["companyName"] = B], SubmitAs)}

Rejecters == {"approver1"}

RejectBodies == {[status |-> "rejected", rejectionReason |-> T]}

NextList ==
  \/ \E q \in Slots, u \in ListCreators, body \in ListCreateBodies :
       RoomFor(MaxListed) /\ CreateBegin(q, u, body)
  \/ \E q \in Slots : CreateFinish(q)
  \/ \E q \in Slots, id \in 1..MaxListed : TestApprove(q, id)
  \/ \E q \in Slots, u \in Rejecters, id \in 1..MaxListed, body \in RejectBodies :
       StatusBegin(q, u, id, body)
  \/ \E q \in Slots : StatusFinish(q)
  \/ \E q \in Slots, u \in SeededUsers, query \in ListQueries :
       ListReports(q, u, query)

SpecList == Init /\ [][NextList]_vars

----------------------------------------------------------------------------
(* Printing: the single-report PDF and print endpoints, and PDFService.    *)
(* A file is a directory and a name.  A stored PDF is named                *)
(* {bankCode}_{branchCode}_{YYYYMMDD}_{sequence}.pdf, here the tuple of    *)
(* the four parts; the temporary file of a print is report_{id}.txt.       *)

dayOf(t) == t \div TicksPerDay

PdfFile(bankCode, branchCode, dateStr, sequence) ==
  [dir |-> "pdf-storage", name |-> <<bankCode, branchCode, dateStr, sequence>>]

TempFile(id) == [dir |-> "tmp", name |-> <<"report", id>>]

(* Math.max() of no number, and what adding 1 leaves of it *)
MinusInfinity == -1

(* file.match(/_(\d{3})\.pdf$/): the sequence was written with three      *)
(* digits, which padStart(3, '0') does up to 999.                          *)
ThreeDigits(sequence) == sequence \in 0..999

Max(S) == CHOOSE x \in S : \A y \in S : y <= x

getSequenceNumber(bankCode, branchCode, dateStr) ==
  LET matchingFiles ==
        {f \in files : /\ f.dir = "pdf-storage"
                       /\ f.name[1] = bankCode
                       /\ f.name[2] = branchCode
                       /\ f.name[3] = dateStr}
      sequences ==
        {f.name[4] : f \in {g \in matchingFiles :
                              ThreeDigits(g.name[4]) /\ g.name[4] > 0}}
  IN IF matchingFiles = {} THEN 1
     ELSE IF sequences = {} THEN MinusInfinity
     ELSE Max(sequences) + 1

generatePDFFilename(report) ==
  PdfFile(report.bankCode, report.branchCode, dayOf(now),
          getSequenceNumber(report.bankCode, report.branchCode, dayOf(now)))

(* savePDF: the directory after fs.writeFileSync *)
savePDF(report) == files \cup {generatePDFFilename(report)}

BULK == <<"BULK">>

getBulkSequenceNumber(bankCode, dateStr) ==
  LET matchingFiles ==
        {f \in files : /\ f.dir = "pdf-storage"
                       /\ f.name[1] = bankCode
                       /\ f.name[2] = BULK
                       /\ f.name[3] = dateStr}
      sequences ==
        {f.name[4] : f \in {g \in matchingFiles :
                              ThreeDigits(g.name[4]) /\ g.name[4] > 0}}
  IN IF matchingFiles = {} THEN 1
     ELSE IF sequences = {} THEN MinusInfinity
     ELSE Max(sequences) + 1

generateBulkPDFFilename(bankCode) ==
  PdfFile(bankCode, BULK, dayOf(now), getBulkSequenceNumber(bankCode, dayOf(now)))

PrintKinds == {"pdf", "print", "print_pdf", "save_pdf"}

PrintUsers == {"handler1"}

PrinterBodies ==
  {[printerId |-> "default_printer", printerName |-> "default"],
   [printerId |-> "default_printer"]}

PrintPdfBodies == {[action |-> "save"], [action |-> "print"], <<>>}

SavePdfBodies == {[filename |-> "x", pdfBuffer |-> "base64"], <<>>}

(* What the four handlers read of the report *)
PrintColumns == {"status", "bankCode", "branchCode"}

(* storage.getReport and the 404 of the four handlers *)
ReadForPrint(q, kind, u, id, body) ==
  /\ IF getReport(id) = Null
     THEN Finished(q, kind, u, id, body, Null, Response(404, "Report not found"))
     ELSE Begin(q, kind, u, id, body, Existing(id, PrintColumns))
  /\ UNCHANGED <<reports, now, files>>

(* GET /api/reports/:id/pdf, to storage.getReport *)
PdfDataBegin(q, u, id) ==
  FirstFree(q) /\ ReadForPrint(q, "pdf", u, id, <<>>)

(* POST /api/reports/:id/print, to storage.getReport *)
PrintBegin(q, u, id, body) ==
  /\ FirstFree(q)
  /\ IF ~({"printerId", "printerName"} \subseteq DOMAIN body)
     THEN /\ Finished(q, "print", u, id, body, Null,
                      Response(400, "Printer ID and name are required"))
          /\ UNCHANGED <<reports, now, files>>
     ELSE ReadForPrint(q, "print", u, id, body)

(* POST /api/reports/:id/print-pdf, to storage.getReport *)
PrintPdfBegin(q, u, id, body) ==
  FirstFree(q) /\ ReadForPrint(q, "print_pdf", u, id, body)

(* POST /api/reports/:id/save-pdf, to storage.getReport *)
SavePdfBegin(q, u, id, body) ==
  FirstFree(q) /\ ReadForPrint(q, "save_pdf", u, id, body)

MayPrintAny(report) == TRUE

MayPrint(report) == report.status = "approved"

NotApproved(message) == Response(400, message)

(* GET /api/reports/:id/pdf, from the status check to the response *)
PdfDataFinish(q) ==
  /\ Awaiting(q, "pdf")
  /\ IF ~MayPrint(reqs[q].snap[1])
     THEN Respond(q, NotApproved("Only approved reports can be printed"))
     ELSE Respond(q, Response(200, "pdf data"))
  /\ UNCHANGED <<reports, now, files>>

(* POST /api/reports/:id/print, from the status check to the response: the *)
(* temporary file is written and handed to the print command, which the    *)
(* operating system runs or fails; a failure removes the file at once.     *)
PrintFinish(q) ==
  /\ Awaiting(q, "print")
  /\ IF ~MayPrint(reqs[q].snap[1])
     THEN /\ Respond(q, NotApproved("Only approved reports can be printed"))
          /\ UNCHANGED files
     ELSE \/ /\ files' = files \cup {TempFile(reqs[q].rid)}
             /\ Respond(q, Response(200, "printed"))
          \/ /\ files' = files \ {TempFile(reqs[q].rid)}
             /\ Respond(q, Response(500, "printing failed"))
  /\ UNCHANGED <<reports, now>>

(* The timer of a print removes its temporary file *)
TempCleanup(id) ==
  /\ TempFile(id) \in files
  /\ files' = files \ {TempFile(id)}
  /\ UNCHANGED <<reports, reqs, now>>

(* POST /api/reports/:id/print-pdf, from the status check to the response *)
PrintPdfFinish(q) ==
  /\ Awaiting(q, "print_pdf")
  /\ LET r == reqs[q]
     IN IF ~MayPrint(r.snap[1])
        THEN Respond(q, NotApproved("Only approved reports can be printed"))
        ELSE IF "action" \in DOMAIN r.body /\ r.body.action \in {"save", "print"}
        THEN Respond(q, Response(200, r.body.action))
        ELSE Respond(q, Response(400, "Invalid action. Use 'save' or 'print'"))
  /\ UNCHANGED <<reports, now, files>>

(* POST /api/reports/:id/save-pdf, from the status check to the response:  *)
(* Buffer.from throws without a pdfBuffer.                                 *)
SavePdfFinish(q) ==
  /\ Awaiting(q, "save_pdf")
  /\ LET r == reqs[q]
     IN IF ~MayPrint(r.snap[1])
        THEN /\ Respond(q, NotApproved("Only approved reports can be saved as PDF"))
             /\ UNCHANGED files
        ELSE IF "pdfBuffer" \notin DOMAIN r.body
        THEN /\ Respond(q, Response(500, "saving the PDF failed"))
             /\ UNCHANGED files
        ELSE /\ files' = savePDF(r.snap[1])
             /\ Respond(q, Response(200, "saved"))
  /\ UNCHANGED <<reports, now>>

MaxSaved == 2

Saving == {q \in Slots : Awaiting(q, "save_pdf")}

(* The PDF storage stays within the bound: no save request is sent that    *)
(* could add a file beyond `most`.                                         *)
RoomForPdf(most) ==
  Cardinality({f \in files : f.dir = "pdf-storage"}) + Cardinality(Saving) < most

NextPrint ==
  \/ \E q \in Slots, u \in Creators, body \in ListCreateBodies :
       RoomFor(MaxReports) /\ CreateBegin(q, u, body)
  \/ \E q \in Slots : CreateFinish(q)
  \/ \E q \in Slots, id \in ReportIds : TestApprove(q, id)
  \/ \E q \in Slots, u \in Rejecters, id \in ReportIds, body \in RejectBodies :
       StatusBegin(q, u, id, body)
  \/ \E q \in Slots : StatusFinish(q)
  \/ \E q \in Slots, u \in PrintUsers, id \in ReportIds : PdfDataBegin(q, u, id)
  \/ \E q \in Slots : PdfDataFinish(q)
  \/ \E q \in Slots, u \in PrintUsers, id \in ReportIds, body \in PrinterBodies :
       PrintBegin(q, u, id, body)
  \/ \E q \in Slots : PrintFinish(q)
  \/ \E id \in ReportIds : TempCleanup(id)
  \/ \E q \in Slots, u \in PrintUsers, id \in ReportIds, body \in PrintPdfBodies :
       PrintPdfBegin(q, u, id, body)
  \/ \E q \in Slots : PrintPdfFinish(q)
  \/ \E q \in Slots, u \in PrintUsers, id \in ReportIds, body \in SavePdfBodies :
       RoomForPdf(MaxSaved) /\ SavePdfBegin(q, u, id, body)
  \/ \E q \in Slots : SavePdfFinish(q)

SpecPrint == Init /\ [][NextPrint]_vars

----------------------------------------------------------------------------
(* Editing: the report endpoints of Spec, with update requests whose body  *)
(* carries the keys that insertReportSchema omits.                         *)

Edited == <<"a", "a">>

(* A report number and a creation time that no report has *)
OmittedKeys ==
  [reportNumber |-> reportNumber(MaxTime + TicksPerMonth, MaxReports),
   createdAt |-> MaxTime + 1,
   status |-> "approved",
   approverId |-> "approver1",
   approvedAt |-> MaxTime + 1]

EditBodies ==
  {Merge([companyName |-> Edited], OmittedKeys), [handlerId |-> "handler2"]}

NextEdit ==
  \/ Before(MaxTime) /\ Tick
  \/ \E q \in Slots, u \in Creators, body \in ListCreateBodies :
       RoomFor(MaxReports) /\ CreateBegin(q, u, body)
  \/ \E q \in Slots : CreateFinish(q)
  \/ \E q \in Slots, u \in Users, id \in ReportIds, body \in EditBodies :
       UpdateBegin(q, u, id, body)
  \/ \E q \in Slots : UpdateFinish(q)
  \/ \E q \in Slots, u \in Users, id \in ReportIds, body \in StatusBodies :
       StatusBegin(q, u, id, body)
  \/ \E q \in Slots : StatusFinish(q)
  \/ \E q \in Slots, u \in Users, id \in ReportIds : SubmitBegin(q, u, id)
  \/ \E q \in Slots : SubmitFinish(q)
  \/ \E q \in Slots, id \in ReportIds : TestApprove(q, id)

SpecEdit == Init /\ [][NextEdit]_vars

----------------------------------------------------------------------------
(* File names: PDFs saved and bulk file names generated in a PDF storage   *)
(* directory that holds files of earlier saves, up to sequence 999 and     *)
(* beyond.                                                                 *)

MaxStored == 6

SequencesBefore == {1, 999, 1000}

StoredBefore ==
  {PdfFile(T, T, 0, sequence) : sequence \in SequencesBefore}
    \cup {PdfFile(T, BULK, 0, sequence) : sequence \in {1, 999}}

InitFiles ==
  /\ reports = <<>>
  /\ reqs = [q \in Slots |-> Idle]
  /\ now = 0
  /\ files \in SUBSET StoredBefore

BulkBanks == {T}

(* POST /api/reports/bulk-print-today: the file name generated for a bank *)
BulkPrintToday(q, bankCode) ==
  /\ FirstFree(q)
  /\ reqs' = [reqs EXCEPT ![q] =
               [pc |-> "done", kind |-> "bulk_print", actor |-> "none", rid |-> 0,
                body |-> <<>>, snap |-> Null,
                resp |-> [code |-> 200, message |-> "", errors |-> {},
                          filename |-> generateBulkPDFFilename(bankCode)]]]
  /\ UNCHANGED <<reports, now, files>>

NextFiles ==
  \/ \E q \in Slots, u \in Creators, body \in PlainBodies :
       RoomFor(MaxReports) /\ CreateBegin(q, u, body)
  \/ \E q \in Slots : CreateFinish(q)
  \/ \E q \in Slots, id \in ReportIds : TestApprove(q, id)
  \/ \E q \in Slots, u \in PrintUsers, id \in ReportIds, body \in SavePdfBodies :
       RoomForPdf(MaxStored) /\ SavePdfBegin(q, u, id, body)
  \/ \E q \in Slots : SavePdfFinish(q)
  \/ \E q \in Slots, bankCode \in BulkBanks : BulkPrintToday(q, bankCode)

SpecFiles == InitFiles /\ [][NextFiles]_vars

----------------------------------------------------------------------------
(* The src/server version of the storage and of the create and submit      *)
(* routes, over the same table.                                            *)

(* getReport: the row with its handler and its approver, both joined with  *)
(* innerJoin                                                               *)
server_getReport(id) ==
  IF id \in 1..Len(reports) /\ JoinsHandler(id) /\ JoinsApprover(id)
  THEN Some(reports[id]) ELSE Null

(* createReport: the reports whose created_at has the year and month of t *)
server_monthlyCount(t) ==
  Cardinality({i \in 1..Len(reports) :
                 /\ reports[i].createdAt # Null
                 /\ monthOf(reports[i].createdAt[1]) = monthOf(t)})

(* createReport: the values inserted; created_at is the time of the INSERT *)
server_createReportValues(report, t, cnt) ==
  Merge(report, [reportNumber |-> reportNumber(t, cnt), createdAt |-> Some(now)])

(* POST /api/reports, to the count query of storage.createReport *)
server_CreateBegin(q, u, body) ==
  /\ FirstFree(q)
  /\ IF insertReportSchemaIssues(body) # {}
     THEN Refused(q, "create", u, body,
                  [code |-> 400, message |-> "Invalid data",
                   errors |-> insertReportSchemaIssues(body)])
     ELSE Begin(q, "create", u, 0, body,
                Some([t |-> now, cnt |-> server_monthlyCount(now)]))
  /\ UNCHANGED <<reports, now, files>>

(* POST /api/reports, the INSERT and the response *)
server_CreateFinish(q) ==
  /\ Awaiting(q, "create")
  /\ LET r == reqs[q]
         validatedData == ToColumns(Pick(r.body, InsertReportKeys))
         report == Merge(validatedData, [handlerId |-> r.actor])
         values == server_createReportValues(report, r.snap[1].t, r.snap[1].cnt)
     IN IF InsertFails(values)
        THEN /\ Respond(q, Response(500, "Failed to create report"))
             /\ UNCHANGED reports
        ELSE /\ reports' = Append(reports, Row(values))
             /\ Respond(q, Response(201, ""))
  /\ UNCHANGED <<now, files>>

(* The answer of PATCH /api/reports/:id/submit and the table after it *)
server_Submitted(q, u, id, resp, table) ==
  /\ reqs' = [reqs EXCEPT ![q] =
               [pc |-> "done", kind |-> "submit", actor |-> u, rid |-> id,
                body |-> <<>>, snap |-> Null, resp |-> resp]]
  /\ reports' = table

(* PATCH /api/reports/:id/submit *)
server_Submit(q, u, id) ==
  /\ FirstFree(q)
  /\ LET existingReport == server_getReport(id)
     IN IF existingReport = Null
        THEN server_Submitted(q, u, id, Response(404, "Report not found"), reports)
        ELSE IF existingReport[1].handlerId # u
        THEN server_Submitted(q, u, id,
               Response(403, "Not authorized to submit this report"), reports)
        ELSE server_Submitted(q, u, id, Response(200, ""),
               updateReportStatus(id, [status |-> "pending_approval"]))
  /\ UNCHANGED <<now, files>>

NextServer ==
  \/ Before(LastTick) /\ Tick
  \/ \E q \in Slots, u \in Creators, body \in CreateBodies :
       RoomFor(MaxReports) /\ server_CreateBegin(q, u, body)
  \/ \E q \in Slots : server_CreateFinish(q)
  \/ \E q \in Slots, u \in Users, id \in ReportIds : server_Submit(q, u, id)

SpecServer == Init /\ [][NextServer]_vars

----------------------------------------------------------------------------
(* Statistics: GET /api/statistics over reports created on several days of *)
(* two months, some of them escalated, pending or approved.                *)

MaxCounted == 2

Escalated == Merge(Complete, [escalationRequired |-> TRUE, escalationReason |-> T])

CountedBodies == {Escalated, Merge(Complete, SubmitAs)}

(* GET /api/statistics: the four counts are queried together *)
Statistics(q) ==
  /\ FirstFree(q)
  /\ reqs' = [reqs EXCEPT ![q] =
               [pc |-> "done", kind |-> "statistics", actor |-> "none", rid |-> 0,
                body |-> <<>>, snap |-> Null,
                resp |-> [code |-> 200, message |-> "", errors |-> {},
                          statistics |-> getReportStatistics]]]
  /\ UNCHANGED <<reports, now, files>>

NextStatistics ==
  \/ Before(LastTick) /\ Tick
  \/ \E q \in Slots, u \in Creators, body \in CountedBodies :
       RoomFor(MaxCounted) /\ CreateBegin(q, u, body)
  \/ \E q \in Slots : CreateFinish(q)
  \/ \E q \in Slots, id \in 1..MaxCounted : TestApprove(q, id)
  \/ \E q \in Slots : Statistics(q)

SpecStatistics == Init /\ [][NextStatistics]_vars

----------------------------------------------------------------------------
(* Properties *)

(* The step in which request q is answered *)
Finishing(q, kind) == Awaiting(q, kind) /\ reqs'[q].pc = "done"

InvalidTransition == Response(400, "Report is not in pending approval status")

IsBlank(s) == \A i \in 1..Len(s) : s[i] = " "

Decided == {"approved", "rejected"}

(* C1: a report's status becomes approved or rejected only in a step that  *)
(* starts with the report in pending_approval.                             *)
C1_DecidedOnlyFromPending ==
  [][\A i \in 1..Len(reports) :
       (reports'[i].status \in Decided /\ reports'[i].status # reports[i].status)
         => reports[i].status = "pending_approval"]_vars

(* C2: when an approver approves a report that is pending_approval, the    *)
(* stored report is approved, with approverId the acting user and          *)
(* approvedAt set.                                                         *)
C2_ApproveSetsApprover ==
  [][\A q \in Slots :
       (/\ Finishing(q, "status")
        /\ hasRole(reqs[q].actor, "approver")
        /\ reqs[q].body.status = "approved"
        /\ reqs[q].snap[1].status = "pending_approval"
        /\ reports[reqs[q].rid].status = "pending_approval")
         => /\ reports'[reqs[q].rid].status = "approved"
            /\ reports'[reqs[q].rid].approverId = Some(reqs[q].actor)
            /\ reports'[reqs[q].rid].approvedAt # Null]_vars

(* C3: of two approve/reject requests that both read the report as         *)
(* pending_approval, the one that writes second is answered with an        *)
(* invalid transition and leaves the winner's row as it is.                *)
Winner(p, id) ==
  /\ reqs[p].pc = "done"
  /\ reqs[p].kind = "status"
  /\ reqs[p].rid = id
  /\ reqs[p].snap # Null
  /\ reqs[p].snap[1].status = "pending_approval"
  /\ reqs[p].resp.code = 200

C3_LoserIsRejected ==
  [][\A q \in Slots :
       (/\ Finishing(q, "status")
        /\ hasRole(reqs[q].actor, "approver")
        /\ reqs[q].body.status \in Decided
        /\ reqs[q].snap[1].status = "pending_approval"
        /\ reports[reqs[q].rid].status \in Decided
        /\ \E p \in Slots \ {q} : Winner(p, reqs[q].rid))
         => /\ reqs'[q].resp = InvalidTransition
            /\ reports' = reports]_vars

(* C4: a set-status request of an approver that finds the report already   *)
(* approved is answered with the invalid-transition error and changes no   *)
(* report: status, approverId and approvedAt stay as the first approval    *)
(* left them.                                                              *)
C4_SecondApproveRejected ==
  [][\A q \in Slots :
       (/\ Finishing(q, "status")
        /\ hasRole(reqs[q].actor, "approver")
        /\ reqs[q].snap[1].status = "approved")
         => /\ reqs'[q].resp = InvalidTransition
            /\ reports' = reports]_vars

C4_Witness ==
  \E q \in Slots :
    /\ reqs[q].pc = "done"
    /\ reqs[q].kind = "status"
    /\ reqs[q].snap # Null
    /\ reqs[q].snap[1].status = "approved"
    /\ reqs[q].resp = InvalidTransition
    /\ reports[reqs[q].rid].status = "approved"
    /\ reports[reqs[q].rid].approvedAt # Null

(* C5: a submit by the owning handler on a report that is not a draft      *)
(* fails and leaves the report unchanged.                                  *)
C5_SubmitOnlyFromDraft ==
  [][\A q \in Slots :
       (/\ Finishing(q, "submit")
        /\ reports[reqs[q].rid].handlerId = reqs[q].actor
        /\ reports[reqs[q].rid].status # "draft")
         => /\ reqs'[q].resp.code # 200
            /\ reports' = reports]_vars

(* C6: a report that is approved stays approved. *)
C6_ApprovedIsTerminal ==
  [][\A i \in 1..Len(reports) :
       reports[i].status = "approved" => reports'[i].status = "approved"]_vars

(* C7: an update of a report that is not a draft, or by a user who is not  *)
(* its handler, is refused and leaves the report unchanged.                *)
C7_UpdateOnlyDraftByHandler ==
  [][\A q \in Slots :
       (/\ Finishing(q, "update")
        /\ ~(/\ reports[reqs[q].rid].status = "draft"
             /\ reports[reqs[q].rid].handlerId = reqs[q].actor))
         => /\ reqs'[q].resp.code # 200
            /\ reports' = reports]_vars

(* C8: a submit by the handler of a draft in which a required field is     *)
(* empty or only whitespace is answered 400 with a list of errors; the     *)
(* report stays a draft and no report changes.                             *)
C8_BlankFieldFailsSubmit ==
  [][\A q \in Slots :
       (/\ Finishing(q, "submit")
        /\ reqs[q].snap[1].handlerId = reqs[q].actor
        /\ reports[reqs[q].rid].status = "draft"
        /\ \E f \in RequiredText : IsBlank(reqs[q].snap[1][f]))
         => /\ reqs'[q].resp.code = 400
            /\ reqs'[q].resp.errors # {}
            /\ reports'[reqs[q].rid].status = "draft"
            /\ reports' = reports]_vars

C8_Witness ==
  \E q \in Slots :
    /\ reqs[q].pc = "done"
    /\ reqs[q].kind = "submit"
    /\ reqs[q].snap # Null
    /\ \E f \in RequiredText : IsBlank(reqs[q].snap[1][f])
    /\ reqs[q].resp.code = 400
    /\ reqs[q].resp.errors # {}
    /\ reports[reqs[q].rid].status = "draft"

(* C9: a submit of a draft with escalationRequired and no escalationReason *)
(* fails with an error for the field escalationReason, and the report      *)
(* stays a draft.                                                          *)
NoReason(column) == column = Null \/ IsBlank(column[1])

C9_EscalationReasonRequired ==
  [][\A q \in Slots :
       (/\ Finishing(q, "submit")
        /\ reports[reqs[q].rid].handlerId = reqs[q].actor
        /\ reports[reqs[q].rid].status = "draft"
        /\ reports[reqs[q].rid].escalationRequired
        /\ NoReason(reports[reqs[q].rid].escalationReason))
         => /\ reqs'[q].resp.code = 400
            /\ "escalationReason" \in reqs'[q].resp.errors
            /\ reports'[reqs[q].rid].status = "draft"]_vars

(* C10: a reject of a pending_approval report without a non-empty          *)
(* rejectionReason fails validation and leaves the report unchanged; with  *)
(* a reason the report becomes rejected and approvedAt stays unset.        *)
HasReason(body) ==
  "rejectionReason" \in DOMAIN body /\ ~IsBlank(body.rejectionReason)

C10_RejectNeedsReason ==
  [][\A q \in Slots :
       (/\ Finishing(q, "status")
        /\ hasRole(reqs[q].actor, "approver")
        /\ reqs[q].body.status = "rejected"
        /\ reqs[q].snap[1].status = "pending_approval"
        /\ reports[reqs[q].rid].status = "pending_approval")
         => IF HasReason(reqs[q].body)
            THEN /\ reports'[reqs[q].rid].status = "rejected"
                 /\ reports'[reqs[q].rid].approvedAt = Null
            ELSE /\ reqs'[q].resp.code = 400
                 /\ reports' = reports]_vars

(* The report a create request stores in the step that answers it *)
Stored(q) == reports'[Len(reports')]

(* C11: a request by a user who lacks what the operation requires (the     *)
(* handler role to create, the approver role to approve or reject, being   *)
(* the report's handler to submit; the test approval is sent without any   *)
(* user) is answered 403 and changes no report.                            *)
C11_ForbiddenWithoutRole ==
  [][\A q \in Slots :
       (\/ Finishing(q, "create") /\ ~hasRole(reqs[q].actor, "handler")
        \/ Finishing(q, "status") /\ ~hasRole(reqs[q].actor, "approver")
        \/ Finishing(q, "submit")
             /\ reports[reqs[q].rid].handlerId # reqs[q].actor
        \/ reqs'[q].kind = "test_approve" /\ reqs'[q] # reqs[q])
         => /\ reqs'[q].resp.code = 403
            /\ reports' = reports]_vars

(* C12: when the reports are created one after another, every create       *)
(* request that runs within one month stores its report, with a sequence   *)
(* number above that of every report numbered in that month before.        *)
C12_SerialNumbersIncrease ==
  [][\A q \in Slots :
       (/\ Finishing(q, "create")
        /\ monthOf(reqs[q].snap[1].t) = monthOf(now))
         => /\ reqs'[q].resp.code = 201
            /\ Len(reports') = Len(reports) + 1
            /\ Stored(q).reportNumber[1] = monthOf(now)
            /\ \A i \in 1..Len(reports) :
                 reports[i].reportNumber[1] = monthOf(now)
                   => reports[i].reportNumber[2] < Stored(q).reportNumber[2]]_vars

(* C13: of two create requests that both counted no report of the month,   *)
(* the one that inserts second is answered 201 as well and its report has  *)
(* sequence number 2, the first one's 1.                                   *)
FirstOfMonth(p, month) ==
  /\ reqs[p].kind = "create"
  /\ reqs[p].snap # Null
  /\ reqs[p].snap[1].cnt = 0
  /\ monthOf(reqs[p].snap[1].t) = month

C13_OverlappingCreatesBothSucceed ==
  [][\A q \in Slots :
       (/\ Finishing(q, "create")
        /\ FirstOfMonth(q, monthOf(now))
        /\ \E p \in Slots \ {q} :
             /\ FirstOfMonth(p, monthOf(now))
             /\ reqs[p].pc = "done"
             /\ reqs[p].resp.code = 201
        /\ \E i \in 1..Len(reports) : reports[i].reportNumber = <<monthOf(now), 1>>)
         => /\ reqs'[q].resp.code = 201
            /\ Len(reports') = Len(reports) + 1
            /\ Stored(q).reportNumber = <<monthOf(now), 2>>]_vars

(* C14: no two stored reports have the same reportNumber. *)
C14_ReportNumbersUnique ==
  \A i, j \in 1..Len(reports) :
    reports[i].reportNumber = reports[j].reportNumber => i = j

C14_Witness ==
  /\ Len(reports) >= 2
  /\ \E q \in Slots :
       /\ reqs[q].pc = "done"
       /\ reqs[q].kind = "create"
       /\ reqs[q].resp.code = 500
       /\ \E i \in 1..Len(reports) :
            reports[i].reportNumber =
              reportNumber(reqs[q].snap[1].t, reqs[q].snap[1].cnt)

(* The step in which GET /api/reports is answered in slot q *)
Listing(q) == reqs'[q].kind = "list" /\ reqs'[q] # reqs[q]

Searching(query) == "search" \in DOMAIN query /\ query.search # E

(* The reports that a status filter of the query lets through *)
Filtered(query) ==
  {i \in 1..Len(reports) :
     "status" \in DOMAIN query => reports[i].status = query.status}

(* The reports in which the searched text occurs *)
Matching(query) ==
  {i \in 1..Len(reports) :
     \/ likeReportNumber(reports[i].reportNumber, query.search)
     \/ like(reports[i].companyName, query.search)
     \/ like(reports[i].contactPersonName, query.search)
     \/ like(reports[i].inquiryContent, query.search)}

(* C15: a list without search, asked by a user whose only role is handler, *)
(* returns no report of which another user is the handler.                 *)
C15_HandlerSeesOnlyOwn ==
  [][\A q \in Slots :
       (/\ Listing(q)
        /\ roles(reqs'[q].actor) = {"handler"}
        /\ ~Searching(reqs'[q].body))
         => \A i \in reqs'[q].resp.rows :
              reports[i].handlerId = reqs'[q].actor]_vars

C15_Witness ==
  \E q \in Slots :
    /\ reqs[q].pc = "done"
    /\ reqs[q].kind = "list"
    /\ roles(reqs[q].actor) = {"handler"}
    /\ ~Searching(reqs[q].body)
    /\ \E i \in 1..Len(reports) : reports[i].handlerId # reqs[q].actor
    /\ \A i \in reqs[q].resp.rows : reports[i].handlerId = reqs[q].actor

(* C16: a list without search, asked by a user with the approver role,     *)
(* returns every report that is pending_approval, whoever its handler is   *)
(* and whatever its approverId.                                            *)
C16_ApproverSeesAllPending ==
  [][\A q \in Slots :
       (/\ Listing(q)
        /\ hasRole(reqs'[q].actor, "approver")
        /\ ~Searching(reqs'[q].body))
         => \A i \in 1..Len(reports) :
              reports[i].status = "pending_approval" => i \in reqs'[q].resp.rows]_vars

C16_Witness ==
  \E q \in Slots :
    /\ reqs[q].pc = "done"
    /\ reqs[q].kind = "list"
    /\ hasRole(reqs[q].actor, "approver")
    /\ ~Searching(reqs[q].body)
    /\ \E i, j \in reqs[q].resp.rows :
         /\ reports[i].handlerId # reports[j].handlerId
         /\ reports[i].approverId = Null
         /\ reports[j].approverId = Null

(* C17: a list with a search text returns, to a user without the approver  *)
(* role, only reports in which the text occurs and whose handler is that   *)
(* user, and to a user with the approver role the reports of all handlers  *)
(* in which the text occurs.                                               *)
C17_SearchScopedByRole ==
  [][\A q \in Slots :
       (Listing(q) /\ Searching(reqs'[q].body))
         => IF hasRole(reqs'[q].actor, "approver")
            THEN reqs'[q].resp.rows = Matching(reqs'[q].body)
            ELSE reqs'[q].resp.rows \subseteq
                   {i \in Matching(reqs'[q].body) :
                      reports[i].handlerId = reqs'[q].actor}]_vars

(* C18: a list without search, asked by a user whose only role is admin,   *)
(* returns the reports of every handler in every status (those of the      *)
(* status asked for, when the query has a status filter).                  *)
C18_AdminSeesAll ==
  [][\A q \in Slots :
       (/\ Listing(q)
        /\ roles(reqs'[q].actor) = {"admin"}
        /\ ~Searching(reqs'[q].body))
         => reqs'[q].resp.rows = Filtered(reqs'[q].body)]_vars

(* C19: a PDF-data, print, print-pdf or save-pdf request that read the     *)
(* report in a status other than approved is answered with an error and    *)
(* writes no file.                                                         *)
C19_PrintOnlyApproved ==
  [][\A q \in Slots :
       (/\ \E kind \in PrintKinds : Finishing(q, kind)
        /\ reqs[q].snap[1].status # "approved")
         => /\ reqs'[q].resp.code = 400
            /\ files' = files]_vars

C19_Witness ==
  /\ \E f \in files : f.dir = "pdf-storage"
  /\ \E q \in Slots :
       /\ reqs[q].pc = "done"
       /\ reqs[q].kind = "save_pdf"
       /\ reqs[q].snap # Null
       /\ reqs[q].snap[1].status \in {"draft", "pending_approval", "rejected"}
       /\ reqs[q].resp.code = 400

(* C20: no step changes the reportNumber or the createdAt of a stored      *)
(* report: update, submit, approve and reject leave both as createReport   *)
(* set them.                                                               *)
C20_NumberAndCreationFixed ==
  [][\A i \in 1..Len(reports) :
       /\ reports'[i].reportNumber = reports[i].reportNumber
       /\ reports'[i].createdAt = reports[i].createdAt]_vars

C20_Witness ==
  \E i \in 1..Len(reports) :
    /\ reports[i].companyName = Edited
    /\ reports[i].status \in Decided
    /\ reports[i].reportNumber # OmittedKeys.reportNumber
    /\ reports[i].createdAt # Some(OmittedKeys.createdAt)

(* The step in which an approver's request for `status`, read while the    *)
(* report was pending_approval, is answered 200.                           *)
Deciding(q, status) ==
  /\ Finishing(q, "status")
  /\ hasRole(reqs[q].actor, "approver")
  /\ reqs[q].body.status = status
  /\ reqs[q].snap[1].status = "pending_approval"
  /\ reqs'[q].resp.code = 200

(* C21: approvedAt is set only on a report whose approverId is set; the    *)
(* two are set together, by an approval and by nothing else; a rejection   *)
(* sets approverId to the acting user and leaves approvedAt unset.         *)
C21_ApproverAndApprovedAtTogether ==
  /\ [](\A i \in 1..Len(reports) :
          reports[i].approvedAt # Null => reports[i].approverId # Null)
  /\ [][\A i \in 1..Len(reports) :
          (reports[i].approvedAt = Null /\ reports'[i].approvedAt # Null)
            => /\ reports'[i].approverId # Null
               /\ \E q \in Slots : Deciding(q, "approved") /\ reqs[q].rid = i]_vars
  /\ [][\A q \in Slots :
          Deciding(q, "rejected")
            => /\ reports'[reqs[q].rid].approverId = Some(reqs[q].actor)
               /\ reports'[reqs[q].rid].approvedAt = reports[reqs[q].rid].approvedAt]_vars

(* C22: a report whose approvedAt is set is approved, and a report whose   *)
(* rejectionReason is set is rejected.                                     *)
C22_StampsMatchStatus ==
  \A i \in 1..Len(reports) :
    /\ reports[i].approvedAt # Null => reports[i].status = "approved"
    /\ reports[i].rejectionReason # Null => reports[i].status = "rejected"

(* The step in which POST /api/reports is answered in slot q, at once or   *)
(* after the INSERT, and the request that is answered.                     *)
CreateAnswered(q) ==
  \/ Finishing(q, "create")
  \/ /\ reqs[q].pc # "await"
     /\ reqs'[q].pc = "done"
     /\ reqs'[q].kind = "create"
     /\ reqs'[q] # reqs[q]

CreateAsked(q) == IF Finishing(q, "create") THEN reqs[q] ELSE reqs'[q]

SubmitRequested(body) == "_submitForApproval" \in DOMAIN body

(* C23: a report that a create request stores has the acting user as       *)
(* handlerId, no approverId and no approvedAt; it is pending_approval when *)
(* immediate submission was asked for and the body passes the submit       *)
(* validation, and a draft otherwise.  A request for immediate submission  *)
(* with a blank required field is answered with a validation error and     *)
(* stores nothing.                                                         *)
C23_CreateYieldsDraftOrPending ==
  [][\A q \in Slots :
       CreateAnswered(q)
         => LET asked == CreateAsked(q)
            IN /\ reports' # reports
                    => /\ reports' = Append(reports, Stored(q))
                       /\ Stored(q).handlerId = asked.actor
                       /\ Stored(q).approverId = Null
                       /\ Stored(q).approvedAt = Null
                       /\ Stored(q).status =
                            IF /\ SubmitRequested(asked.body)
                               /\ submitReportForApprovalSchemaIssues(asked.body) = {}
                            THEN "pending_approval" ELSE "draft"
               /\ (/\ SubmitRequested(asked.body)
                   /\ \E f \in RequiredText \cap DOMAIN asked.body :
                        IsBlank(asked.body[f]))
                    => /\ reqs'[q].resp.code = 400
                       /\ reqs'[q].resp.errors # {}
                       /\ reports' = reports]_vars

C23_Witness ==
  /\ \E i \in 1..Len(reports) :
       /\ reports[i].status = "pending_approval"
       /\ reports[i].handlerId = "handler2"
       /\ reports[i].approverId = Null
       /\ reports[i].approvedAt = Null
  /\ \E q \in Slots :
       /\ reqs[q].pc = "done"
       /\ reqs[q].kind = "create"
       /\ SubmitRequested(reqs[q].body)
       /\ IsBlank(reqs[q].body.companyName)
       /\ reqs[q].resp.code = 400

(* The step in which GET /api/statistics is answered in slot q *)
Counting(q) == reqs'[q].kind = "statistics" /\ reqs'[q] # reqs[q]

Created(i) == reports[i].createdAt[1]

(* C24: the statistics returned are, over the reports of all handlers, the *)
(* number of pending_approval reports, the number of approved reports      *)
(* created in the current month or later, the number of reports created    *)
(* today, and the number of reports with escalationRequired.               *)
C24_StatisticsCountTheTable ==
  [][\A q \in Slots :
       Counting(q)
         => LET statistics == reqs'[q].resp.statistics
                all == 1..Len(reports)
            IN /\ statistics.pendingApprovals =
                    Cardinality({i \in all : reports[i].status = "pending_approval"})
               /\ statistics.monthlyCompleted =
                    Cardinality({i \in all : /\ reports[i].status = "approved"
                                             /\ monthOf(Created(i)) >= monthOf(now)})
               /\ statistics.todayInquiries =
                    Cardinality({i \in all : dayOf(Created(i)) = dayOf(now)})
               /\ statistics.escalations =
                    Cardinality({i \in all : reports[i].escalationRequired})]_vars

C24_Witness ==
  /\ Len(reports) = 2
  /\ monthOf(Created(1)) < monthOf(now)
  /\ reports[1].status = "approved"
  /\ \E q \in Slots :
       /\ reqs[q].pc = "done"
       /\ reqs[q].kind = "statistics"
       /\ reqs[q].resp.statistics =
            [todayInquiries |-> 1, pendingApprovals |-> 1,
             monthlyCompleted |-> 0, escalations |-> 1]

(* C25: the sequence part of the number createReport gives a new report   *)
(* is 1 + the number of reports created in the calendar month of the       *)
(* request, the reports created on the last day of the month included.     *)
C25_SequenceCountsWholeMonth ==
  [][\A q \in Slots :
       Finishing(q, "create")
         => LET snap == reqs[q].snap[1]
            IN reportNumber(snap.t, snap.cnt)[2] =
                 1 + Cardinality({i \in 1..Len(reports) :
                                    monthOf(Created(i)) = monthOf(snap.t)})]_vars

(* The existing files of a bank and branch (or of the bulk exports of a    *)
(* bank) of today, and the sequence that follows the largest of theirs.    *)
SamePrefix(bankCode, branchCode) ==
  {f \in files : /\ f.dir = "pdf-storage"
                 /\ f.name[1] = bankCode
                 /\ f.name[2] = branchCode
                 /\ f.name[3] = dayOf(now)}

NextSequence(bankCode, branchCode) ==
  IF SamePrefix(bankCode, branchCode) = {} THEN 1
  ELSE 1 + Max({f.name[4] : f \in SamePrefix(bankCode, branchCode)})

(* C26: the file name under which a PDF is saved, and the bulk file name   *)
(* generated for a bank, carry the sequence that follows the largest       *)
(* sequence of the existing files with the same prefix (1 when there is    *)
(* none), so the name is not that of an existing file; also when a file    *)
(* with sequence 999 exists.                                               *)
C26_FilenameFollowsLargestSequence ==
  [][\A q \in Slots :
       /\ (Finishing(q, "save_pdf") /\ reqs'[q].resp.code = 200)
            => LET report == reqs[q].snap[1]
                   filename == generatePDFFilename(report)
               IN /\ filename \notin files
                  /\ filename \in files'
                  /\ filename.name[4] =
                       NextSequence(report.bankCode, report.branchCode)
       /\ (reqs'[q].kind = "bulk_print" /\ reqs'[q] # reqs[q])
            => \E bankCode \in BulkBanks :
                 /\ reqs'[q].resp.filename \notin files
                 /\ reqs'[q].resp.filename =
                      PdfFile(bankCode, BULK, dayOf(now), NextSequence(bankCode, BULK))]_vars

(* C27: the list that getReportsByUser gives a user without the approver  *)
(* role holds every stored report of which the user is the handler, drafts *)
(* without approver included, restricted to the status of the query when   *)
(* there is one.                                                           *)
C27_HandlerSeesEveryOwnReport ==
  [][\A q \in Slots :
       (/\ Listing(q)
        /\ ~hasRole(reqs'[q].actor, "approver")
        /\ ~Searching(reqs'[q].body))
         => \A i \in Filtered(reqs'[q].body) :
              reports[i].handlerId = reqs'[q].actor => i \in reqs'[q].resp.rows]_vars

(* C28: in the src/server version, a submit request for a stored report,  *)
(* sent by the handler who created it, is not answered Not Found, and the  *)
(* report is pending_approval after it.                                    *)
C28_CreatedReportCanBeSubmitted ==
  [][\A q \in Slots :
       (/\ reqs'[q].kind = "submit"
        /\ reqs'[q] # reqs[q]
        /\ reqs'[q].rid \in 1..Len(reports)
        /\ reports[reqs'[q].rid].handlerId = reqs'[q].actor)
         => /\ reqs'[q].resp.code # 404
            /\ reports'[reqs'[q].rid].status = "pending_approval"]_vars

(* C29: an update of a report leaves its status, its approverId and its   *)
(* approvedAt as they were, also when the request body names them.         *)
C29_UpdateKeepsWorkflowFields ==
  [][\A q \in Slots :
       Finishing(q, "update")
         => \A i \in 1..Len(reports) :
              /\ reports'[i].status = reports[i].status
              /\ reports'[i].approverId = reports[i].approverId
              /\ reports'[i].approvedAt = reports[i].approvedAt]_vars

C29_Witness ==
  \E q \in Slots :
    /\ reqs[q].pc = "done"
    /\ reqs[q].kind = "update"
    /\ reqs[q].resp.code = 200
    /\ reports[reqs[q].rid].companyName = Edited
    /\ reports[reqs[q].rid].status = "draft"
    /\ reports[reqs[q].rid].approverId = Null
    /\ reports[reqs[q].rid].approvedAt = Null

(* C30: the handlerId of a report is the user who created it, and no       *)
(* update, submit, approval or rejection changes it, whatever the request  *)
(* body contains.                                                          *)
C30_HandlerIdFixed ==
  [][/\ \A q \in Slots :
          (Finishing(q, "create") /\ reqs'[q].resp.code = 201)
            => Stored(q).handlerId = reqs[q].actor
     /\ \A i \in 1..Len(reports) : reports'[i].handlerId = reports[i].handlerId]_vars

====
